---- MODULE Spec2Model ----
(***************************************************************************)
(* The image conversion form (frontend/src/App.vue): the component's refs, *)
(* its event handlers, the pending HTTP requests and the template's        *)
(* conditional rendering.                                                   *)
(***************************************************************************)
EXTENDS Integers, Sequences, FiniteSets, TLC

\* ------------------------------------------------------------------ bounds
\* Requests issued in one run of the model.
MaxRequests == 3
\* Alerts shown by the missing-file guard in one run of the model.
MaxAlerts == 1
\* Files carried by one change event of the file input.
MaxEventFiles == 2
\* Requests issued in one run where submitForm is invoked whatever the button's state.
MaxDirectRequests == 2

\* ------------------------------------------------------------------ values
\* ref<File | null>(null), ref<string | null>(null)
NoFile == "null"
NoUrl == 0

\* The files the user picks from.
Files == {"cat.bmp", "dog.gif"}

\* The <option> values of the format <select>.
Formats ==
  {"bmp", "gif", "ico", "jpeg", "pam", "pbm", "pgm", "png", "ppm", "tga", "tiff", "webp"}

\* The options the user picks in the model.
FormatChoices == {"png", "jpeg", "webp"}

\* Response bodies and content-type header values; the header may be missing.
Bodies == {"B1", "B2"}
NoHeader == "undefined"
ContentTypes == {"image/png", "image/webp", NoHeader}

\* The file lists a change event of the file input can carry.
FileLists == UNION {[1..n -> Files] : n \in 0..MaxEventFiles}

VARIABLES
  selectedFile,   \* ref: the chosen File, or NoFile
  imageUrl,       \* ref: the object URL displayed, or NoUrl
  outputFormat,   \* ref: the chosen output format
  loading,        \* ref: the loading flag
  pending,        \* the POST requests awaiting their response
  sent,           \* number of POST requests issued so far
  blobStore,      \* object URL n  |->  the Blob it was created for
  alerts,         \* number of alert() dialogs shown
  errorLog        \* number of console.error() calls

vars ==
  <<selectedFile, imageUrl, outputFormat, loading, pending, sent, blobStore, alerts, errorLog>>

\* ------------------------------------------------------------- pure helpers
\* JSON.stringify of a string without special characters: the string in quotes.
JSONStringify(s) == "\"" \o s \o "\""

\* new Blob([data], { type }): a missing type gives the empty type.
Blob(data, type) == [data |-> data, type |-> IF type = NoHeader THEN "" ELSE type]

\* Mutant: the format part holds the bare format, not its JSON encoding.
FormDataRaw(file, format) ==
  << [name |-> "file", value |-> file],
     [name |-> "output_type", value |-> Blob(format, "application/json")] >>

\* The FormData built by submitForm: the parts in append order.
FormData(file, format) ==
  << [name |-> "file", value |-> file],
     [name |-> "output_type", value |-> Blob(JSONStringify(format), "application/json")] >>

\* Mutant: the computed forgets the loading flag.
isSubmitDisabledNoLoading == selectedFile = NoFile

\* Mutant: the computed forgets the selected file.
isSubmitDisabledNoFile == loading

\* computed(() => !selectedFile.value || loading.value)
isSubmitDisabled == selectedFile = NoFile \/ loading

\* The template's conditional elements that are in the rendered page:
\* <div v-if='loading' class='loading-indicator'> above the image container,
\* and in the container <img v-if='imageUrl'> with its v-else-if='loading' <div>.
RenderedElements ==
  (IF loading THEN {"loading-indicator"} ELSE {})
  \cup (IF imageUrl # NoUrl THEN {"converted-image"}
        ELSE IF loading THEN {"container-loading-indicator"}
        ELSE {})

LoadingIndicators == {"loading-indicator", "container-loading-indicator"}

\* ------------------------------------------------------------------- state
Init ==
  /\ selectedFile = NoFile
  /\ imageUrl = NoUrl
  /\ outputFormat = "png"
  /\ loading = FALSE
  /\ pending = {}
  /\ sent = 0
  /\ blobStore = << >>
  /\ alerts = 0
  /\ errorLog = 0

\* Mutant: selecting a file cancels the pending requests.
handleFileUploadCancels(files) ==
  /\ selectedFile' = IF Len(files) > 0 THEN files[1] ELSE selectedFile
  /\ pending' = IF Len(files) > 0 THEN {} ELSE pending
  /\ loading' = IF Len(files) > 0 THEN FALSE ELSE loading
  /\ UNCHANGED <<imageUrl, outputFormat, sent, blobStore, alerts, errorLog>>

\* Mutant: selecting a file also drops the displayed result.
handleFileUploadClearsResult(files) ==
  /\ selectedFile' = IF Len(files) > 0 THEN files[1] ELSE selectedFile
  /\ imageUrl' = NoUrl
  /\ UNCHANGED <<outputFormat, loading, pending, sent, blobStore, alerts, errorLog>>

\* Mutant: an event without files clears the selection.
handleFileUploadOrNull(files) ==
  /\ selectedFile' = IF Len(files) > 0 THEN files[1] ELSE NoFile
  /\ UNCHANGED <<imageUrl, outputFormat, loading, pending, sent, blobStore, alerts, errorLog>>

\* @change on the file input
handleFileUpload(files) ==
  /\ selectedFile' = IF Len(files) > 0 THEN files[1] ELSE selectedFile
  /\ UNCHANGED <<imageUrl, outputFormat, loading, pending, sent, blobStore, alerts, errorLog>>

\* Mutant: the pending requests read the format ref when they are sent.
selectOutputFormatShared(format) ==
  /\ outputFormat' = format
  /\ pending' = {[r EXCEPT !.formData = FormData(r.formData[1].value, format)] : r \in pending}
  /\ UNCHANGED <<selectedFile, imageUrl, loading, sent, blobStore, alerts, errorLog>>

\* v-model on the format <select>
selectOutputFormat(format) ==
  /\ outputFormat' = format
  /\ UNCHANGED <<selectedFile, imageUrl, loading, pending, sent, blobStore, alerts, errorLog>>

\* Mutant: the request is issued without setting the loading flag.
submitFormNoLoading ==
  IF selectedFile = NoFile
  THEN /\ alerts < MaxAlerts
       /\ alerts' = alerts + 1
       /\ UNCHANGED <<selectedFile, imageUrl, outputFormat, loading, pending, sent,
                      blobStore, errorLog>>
  ELSE /\ sent < MaxRequests
       /\ sent' = sent + 1
       /\ pending' = pending \cup
            {[id |-> sent + 1, formData |-> FormData(selectedFile, outputFormat)]}
       /\ UNCHANGED <<selectedFile, imageUrl, outputFormat, loading, blobStore, alerts,
                      errorLog>>

\* Mutant: the loading flag is set before the missing-file guard.
submitFormLoadingFirst ==
  IF selectedFile = NoFile
  THEN /\ alerts < MaxAlerts
       /\ alerts' = alerts + 1
       /\ loading' = TRUE
       /\ UNCHANGED <<selectedFile, imageUrl, outputFormat, pending, sent, blobStore,
                      errorLog>>
  ELSE /\ sent < MaxRequests
       /\ loading' = TRUE
       /\ sent' = sent + 1
       /\ pending' = pending \cup
            {[id |-> sent + 1, formData |-> FormData(selectedFile, outputFormat)]}
       /\ UNCHANGED <<selectedFile, imageUrl, outputFormat, blobStore, alerts, errorLog>>

\* Mutant: issuing a request drops the displayed result.
submitFormClearsImage ==
  IF selectedFile = NoFile
  THEN /\ alerts < MaxAlerts
       /\ alerts' = alerts + 1
       /\ UNCHANGED <<selectedFile, imageUrl, outputFormat, loading, pending, sent,
                      blobStore, errorLog>>
  ELSE /\ sent < MaxRequests
       /\ loading' = TRUE
       /\ imageUrl' = NoUrl
       /\ sent' = sent + 1
       /\ pending' = pending \cup
            {[id |-> sent + 1, formData |-> FormData(selectedFile, outputFormat)]}
       /\ UNCHANGED <<selectedFile, outputFormat, blobStore, alerts, errorLog>>

\* submitForm up to its await: the missing-file guard, or the request is issued.
submitForm ==
  IF selectedFile = NoFile
  THEN /\ alerts < MaxAlerts
       /\ alerts' = alerts + 1
       /\ UNCHANGED <<selectedFile, imageUrl, outputFormat, loading, pending, sent,
                      blobStore, errorLog>>
  ELSE /\ sent < MaxRequests
       /\ loading' = TRUE
       /\ sent' = sent + 1
       /\ pending' = pending \cup
            {[id |-> sent + 1, formData |-> FormData(selectedFile, outputFormat)]}
       /\ UNCHANGED <<selectedFile, imageUrl, outputFormat, blobStore, alerts, errorLog>>

\* The submit button is clicked: only an enabled button submits the form.
clickSubmit ==
  /\ ~isSubmitDisabled
  /\ submitForm

\* The form's submit event reaches submitForm whatever the button's state.
invokeSubmitForm ==
  /\ sent < MaxDirectRequests
  /\ submitForm

\* Mutant: the Blob is created without the response's content type.
postFulfilledUntyped(req, data, contentType) ==
  /\ req \in pending
  /\ blobStore' = Append(blobStore, Blob(data, NoHeader))
  /\ imageUrl' = Len(blobStore) + 1
  /\ loading' = FALSE
  /\ pending' = pending \ {req}
  /\ UNCHANGED <<selectedFile, outputFormat, sent, alerts, errorLog>>

\* Mutant: the loading flag is reset in the catch only, not in a finally.
postFulfilledNoFinally(req, data, contentType) ==
  /\ req \in pending
  /\ blobStore' = Append(blobStore, Blob(data, contentType))
  /\ imageUrl' = Len(blobStore) + 1
  /\ pending' = pending \ {req}
  /\ UNCHANGED <<selectedFile, outputFormat, loading, sent, alerts, errorLog>>

\* Mutant: a response without a content type is thrown to the catch.
postFulfilledValidating(req, data, contentType) ==
  /\ req \in pending
  /\ IF contentType = NoHeader
     THEN /\ errorLog' = errorLog + 1
          /\ UNCHANGED <<imageUrl, blobStore>>
     ELSE /\ blobStore' = Append(blobStore, Blob(data, contentType))
          /\ imageUrl' = Len(blobStore) + 1
          /\ errorLog' = errorLog
  /\ loading' = FALSE
  /\ pending' = pending \ {req}
  /\ UNCHANGED <<selectedFile, outputFormat, sent, alerts>>

\* Mutant: the loading flag is cleared only when no other request is pending.
postFulfilledCounting(req, data, contentType) ==
  /\ req \in pending
  /\ blobStore' = Append(blobStore, Blob(data, contentType))
  /\ imageUrl' = Len(blobStore) + 1
  /\ loading' = (pending \ {req} # {})
  /\ pending' = pending \ {req}
  /\ UNCHANGED <<selectedFile, outputFormat, sent, alerts, errorLog>>

\* submitForm after its await, the request fulfilled: try body, then finally.
postFulfilled(req, data, contentType) ==
  /\ req \in pending
  /\ blobStore' = Append(blobStore, Blob(data, contentType))
  /\ imageUrl' = Len(blobStore) + 1
  /\ loading' = FALSE
  /\ pending' = pending \ {req}
  /\ UNCHANGED <<selectedFile, outputFormat, sent, alerts, errorLog>>

\* Mutant: the loading flag is reset in the try body only, not in a finally.
postRejectedNoFinally(req) ==
  /\ req \in pending
  /\ errorLog' = errorLog + 1
  /\ pending' = pending \ {req}
  /\ UNCHANGED <<selectedFile, imageUrl, outputFormat, loading, sent, blobStore, alerts>>

\* Mutant: the catch also drops the displayed result.
postRejectedClearsImage(req) ==
  /\ req \in pending
  /\ errorLog' = errorLog + 1
  /\ imageUrl' = NoUrl
  /\ loading' = FALSE
  /\ pending' = pending \ {req}
  /\ UNCHANGED <<selectedFile, outputFormat, sent, blobStore, alerts>>

\* submitForm after its await, the request rejected: catch, then finally.
postRejected(req) ==
  /\ req \in pending
  /\ errorLog' = errorLog + 1
  /\ loading' = FALSE
  /\ pending' = pending \ {req}
  /\ UNCHANGED <<selectedFile, imageUrl, outputFormat, sent, blobStore, alerts>>

UserInput ==
  \/ \E files \in FileLists : handleFileUpload(files)
  \/ \E format \in FormatChoices : selectOutputFormat(format)

Responses ==
  \/ \E req \in pending, data \in Bodies, contentType \in ContentTypes :
       postFulfilled(req, data, contentType)
  \/ \E req \in pending : postRejected(req)

\* Submissions start through the submit button only.
Next == UserInput \/ clickSubmit \/ Responses

Spec == Init /\ [][Next]_vars

\* Every issued request settles: it is fulfilled or rejected.
FairSpec == Spec /\ WF_vars(Responses)

\* submitForm is invoked whatever the button's state (a click on the enabled
\* button is one such invocation).
NextDirect == UserInput \/ invokeSubmitForm \/ Responses

SpecDirect == Init /\ [][NextDirect]_vars

\* ------------------------------------------------------------------ claims
TypeOK ==
  /\ selectedFile \in Files \cup {NoFile}
  /\ imageUrl \in 0..MaxRequests
  /\ outputFormat \in Formats
  /\ loading \in BOOLEAN
  /\ sent \in 0..MaxRequests
  /\ alerts \in 0..MaxAlerts
  /\ errorLog \in 0..MaxRequests
  /\ Len(blobStore) <= sent

\* C1: the loading flag is true exactly while a submission request is in
\* flight, in every state reached through the file input, the format select,
\* the submit button and the responses.
LoadingIffInFlight == loading <=> pending # {}

\* A second submission is in flight after an earlier one was handled.
LoadingIffInFlightWitness == loading /\ pending # {} /\ sent >= 2 /\ errorLog >= 1

\* The steps that end a submission, seen from the component's state.
Succeeded ==
  /\ imageUrl' # imageUrl
  /\ Len(blobStore') = Len(blobStore) + 1
  /\ errorLog' = errorLog

Failed ==
  /\ imageUrl' = imageUrl
  /\ blobStore' = blobStore
  /\ errorLog' = errorLog + 1

\* C2: the loading flag is never left stuck: every state with the flag true
\* leads to a state with the flag false and no request in flight, and the
\* flag only goes false -> true by issuing a request with a file selected and
\* true -> false by a success or a failure being handled.
LoadingNeverStuck ==
  /\ loading ~> (~loading /\ pending = {})
  /\ [][ /\ (~loading /\ loading') =>
             (selectedFile # NoFile /\ sent' = sent + 1 /\ pending' # {})
         /\ (loading /\ ~loading') => (pending' = {} /\ (Succeeded \/ Failed)) ]_vars

\* Back in Idle after a success and a failure were both handled.
LoadingNeverStuckWitness ==
  ~loading /\ pending = {} /\ errorLog >= 1 /\ imageUrl # NoUrl

\* C3: the submit button is disabled exactly when no file is selected or a
\* submission is in flight, whatever the format and the displayed result.
SubmitDisabledIff ==
  isSubmitDisabled <=> (selectedFile = NoFile \/ pending # {})

\* A file is selected, a result is displayed, another format is chosen and a
\* request is in flight: the button is disabled.
SubmitDisabledIffWitness ==
  /\ selectedFile # NoFile
  /\ pending # {}
  /\ imageUrl # NoUrl
  /\ outputFormat # "png"
  /\ isSubmitDisabled

\* C4: at most one submission request is in flight when submissions start
\* through the submit button.
AtMostOneInFlight == Cardinality(pending) <= 1

\* The last request the model issues is in flight alone.
AtMostOneInFlightWitness == Cardinality(pending) = 1 /\ sent = MaxRequests

\* C5: submitForm called with no file selected shows an alert, issues no
\* request, leaves the loading flag false and leaves the selected file, the
\* format and the displayed result as they were.
GuardAborts ==
  [][ (selectedFile = NoFile /\ invokeSubmitForm) =>
        /\ alerts' = alerts + 1
        /\ sent' = sent
        /\ pending' = pending
        /\ ~loading /\ ~loading'
        /\ UNCHANGED <<selectedFile, outputFormat, imageUrl, blobStore>> ]_vars

\* The guard has shown its alert: nothing was sent and nothing is loading.
GuardAbortsWitness ==
  alerts >= 1 /\ selectedFile = NoFile /\ sent = 0 /\ ~loading /\ outputFormat # "png"

\* C6: when a submission ends in a rejected request, the loading flag is
\* false afterwards, the displayed result is the one from before the
\* submission (it does not change while the flag is or becomes true, nor in
\* the failure step), and nothing but the loading indicators leaves the page:
\* no alert, no other element.
FailureKeepsResult ==
  [][ /\ (\E req \in pending : postRejected(req)) =>
            /\ ~loading'
            /\ imageUrl' = imageUrl
            /\ blobStore' = blobStore
            /\ alerts' = alerts
            /\ RenderedElements' = RenderedElements \ LoadingIndicators
      /\ loading' => imageUrl' = imageUrl ]_vars

\* Two failures were handled after a success: the first result is displayed.
FailureKeepsResultWitness ==
  ~loading /\ errorLog = 2 /\ imageUrl = 1 /\ sent = 3

\* C7: when a submission ends in a fulfilled request with body B and
\* content type T, the displayed URL is a new one that refers to B tagged
\* with T, the loading flag is false, and the page shows the image and no
\* loading indicator.
SuccessShowsResult ==
  [][ \A req \in pending, data \in Bodies, contentType \in ContentTypes \ {NoHeader} :
        postFulfilled(req, data, contentType) =>
          /\ imageUrl' # NoUrl
          /\ imageUrl' \notin DOMAIN blobStore
          /\ imageUrl' \in DOMAIN blobStore'
          /\ blobStore'[imageUrl'] = [data |-> data, type |-> contentType]
          /\ ~loading'
          /\ RenderedElements' = {"converted-image"} ]_vars

\* A second success replaced the first result by body B2 tagged image/webp.
SuccessShowsResultWitness ==
  /\ ~loading
  /\ imageUrl = 2
  /\ blobStore[imageUrl] = [data |-> "B2", type |-> "image/webp"]
  /\ blobStore[1] = [data |-> "B1", type |-> "image/png"]
  /\ RenderedElements = {"converted-image"}

\* The format a JSON-encoded format part decodes to.
JSONParse(s) == CHOOSE format \in Formats : JSONStringify(format) = s

FilePart(req) == req.formData[1].value

FormatPart(req) == req.formData[2].value

PartsNamed(req, name) == {i \in DOMAIN req.formData : req.formData[i].name = name}

\* C8: a request carries exactly one file part and one JSON-encoded format
\* part; when it is issued they hold the selected file and the chosen format
\* of that moment, and no later step changes the payload of a pending request.
PayloadFixedAtSubmit ==
  /\ [](\A req \in pending :
          /\ Len(req.formData) = 2
          /\ Cardinality(PartsNamed(req, "file")) = 1
          /\ Cardinality(PartsNamed(req, "output_type")) = 1
          /\ FormatPart(req).type = "application/json")
  /\ [][ /\ \A req \in pending' \ pending :
               /\ FilePart(req) = selectedFile
               /\ JSONParse(FormatPart(req).data) = outputFormat
               /\ FormatPart(req).data # outputFormat
         /\ \A req \in pending : \A later \in pending' :
               later.id = req.id => later = req ]_vars

\* A request is pending while the file and the format have both been changed.
PayloadFixedAtSubmitWitness ==
  \E req \in pending :
    /\ FilePart(req) # selectedFile
    /\ JSONParse(FormatPart(req).data) # outputFormat

\* C9 as stated: a displayed result and a true loading flag never co-occur.
ResultExcludesLoading == ~(imageUrl # NoUrl /\ loading)

\* C9 as amended: a displayed result and a true loading flag co-occur only
\* while a resubmission is in flight after an earlier success: a request that
\* is not the first one is then pending and the displayed URL is the one the
\* latest success created; before the first success they never co-occur.
ResultWhileLoadingIsEarlier ==
  (imageUrl # NoUrl /\ loading) =>
    /\ pending # {}
    /\ \A req \in pending : req.id >= 2
    /\ Len(blobStore) >= 1
    /\ imageUrl = Len(blobStore)

\* The first result is displayed while the second submission is in flight.
ResultWhileLoadingIsEarlierWitness ==
  imageUrl = 1 /\ loading /\ \E req \in pending : req.id = 2

\* C10: the page follows a fixed precedence: with a result the image is
\* rendered and no loading indicator; without a result and with the loading
\* flag true a loading indicator is rendered and no image; otherwise nothing.
RenderPrecedence ==
  /\ imageUrl # NoUrl =>
       /\ "converted-image" \in RenderedElements
       /\ RenderedElements \cap LoadingIndicators = {}
  /\ (imageUrl = NoUrl /\ loading) =>
       /\ "converted-image" \notin RenderedElements
       /\ RenderedElements \cap LoadingIndicators # {}
  /\ (imageUrl = NoUrl /\ ~loading) => RenderedElements = {}

\* The object URLs created and not revoked: nothing in the component revokes one.
LiveUrls == DOMAIN blobStore

\* C11: each success discards the previous result: at most one generated
\* reference is live, the one displayed, so references do not accumulate.
OnlyLatestUrlLive == LiveUrls \subseteq {imageUrl}

\* C12: the file input and the format select never change the displayed
\* result or the loading flag: a change event with files sets only the
\* selected file, to the event's first file, one without files changes
\* nothing, a format selection sets only the format; and the displayed
\* result changes only when a pending request is fulfilled.
SelectionFrame ==
  [][ /\ \A files \in FileLists :
           handleFileUpload(files) =>
             /\ selectedFile' = (IF files = << >> THEN selectedFile ELSE files[1])
             /\ UNCHANGED <<imageUrl, outputFormat, loading, pending, sent, blobStore,
                            alerts, errorLog>>
             /\ RenderedElements' = RenderedElements
      /\ \A format \in FormatChoices :
           selectOutputFormat(format) =>
             /\ outputFormat' = format
             /\ UNCHANGED <<selectedFile, imageUrl, loading, pending, sent, blobStore,
                            alerts, errorLog>>
      /\ (selectedFile' # selectedFile \/ outputFormat' # outputFormat) =>
           UNCHANGED <<imageUrl, loading, pending, blobStore>>
      /\ imageUrl' # imageUrl =>
           /\ Cardinality(pending') < Cardinality(pending)
           /\ Len(blobStore') = Len(blobStore) + 1 ]_vars

\* The first result is displayed and the file was changed after the second
\* submission, which is still in flight.
SelectionFrameWitness ==
  /\ imageUrl = 1
  /\ \E req \in pending : req.id = 2 /\ FilePart(req) # selectedFile

\* C13: a selected file never becomes absent again, so whenever a submission
\* has completed and none is in flight the submit button is enabled.
FileStaysSelected ==
  /\ [][selectedFile # NoFile => selectedFile' # NoFile]_vars
  /\ []((sent >= 1 /\ pending = {}) => (selectedFile # NoFile /\ ~isSubmitDisabled))

\* A success and a failure were handled: the button is enabled again and the
\* next submission can start.
FileStaysSelectedWitness ==
  /\ pending = {}
  /\ Len(blobStore) >= 1
  /\ errorLog >= 1
  /\ ~isSubmitDisabled
  /\ ENABLED clickSubmit

\* C14 as stated: a fulfilled request whose response is malformed (here: it
\* carries no content type) ends as a failure: the error is logged and the
\* displayed result is left unchanged.
MalformedIsFailure ==
  [][ \A req \in pending, data \in Bodies :
        postFulfilled(req, data, NoHeader) =>
          (errorLog' = errorLog + 1 /\ imageUrl' = imageUrl) ]_vars

\* C14 as amended: a fulfilled request is handled as a success whatever its
\* body and content type: nothing is logged and the displayed result is
\* replaced by a reference to the body, tagged with the content type or with
\* the empty type when the header is missing; an error is logged, with the
\* displayed result unchanged, only when the request is rejected.
FulfilledIsSuccess ==
  [][ /\ \A req \in pending, data \in Bodies, contentType \in ContentTypes :
           postFulfilled(req, data, contentType) =>
             /\ errorLog' = errorLog
             /\ imageUrl' # imageUrl
             /\ blobStore'[imageUrl'] =
                  [data |-> data, type |-> IF contentType = NoHeader THEN "" ELSE contentType]
      /\ errorLog' # errorLog =>
           /\ \E req \in pending : postRejected(req)
           /\ imageUrl' = imageUrl ]_vars

\* A response without a content type is displayed and nothing was logged.
FulfilledIsSuccessWitness ==
  /\ imageUrl # NoUrl
  /\ blobStore[imageUrl].type = ""
  /\ errorLog = 0
  /\ ~loading

\* The selection differs from the payload of a pending request.
SelectionMovedOn(req) ==
  FilePart(req) # selectedFile \/ JSONParse(FormatPart(req).data) # outputFormat

\* C15: there is no cancellation: a file or format selection leaves the
\* pending requests, the request count and the loading flag as they are; a
\* pending request whose payload differs from the current selection still
\* completes, and its completion is applied: on fulfilment the displayed
\* result becomes the response to that request and the flag is cleared, on
\* rejection the flag is cleared.
NoCancellation ==
  /\ [][ /\ (selectedFile' # selectedFile \/ outputFormat' # outputFormat) =>
             UNCHANGED <<pending, sent, loading>>
         /\ \A req \in pending :
              SelectionMovedOn(req) =>
                /\ \A data \in Bodies, contentType \in ContentTypes :
                     postFulfilled(req, data, contentType) =>
                       /\ blobStore'[imageUrl'] = Blob(data, contentType)
                       /\ ~loading'
                       /\ req \notin pending'
                /\ postRejected(req) => (~loading' /\ req \notin pending') ]_vars
  /\ (\E req \in pending : SelectionMovedOn(req)) ~> (pending = {} /\ ~loading)

\* The only request is pending, file and format were both changed since, and
\* its response can still be applied.
NoCancellationWitness ==
  /\ loading
  /\ sent = 1
  /\ \E req \in pending :
       /\ FilePart(req) # selectedFile
       /\ JSONParse(FormatPart(req).data) # outputFormat
       /\ ENABLED postFulfilled(req, "B2", "image/webp")

\* C16: submitForm does not look at the loading flag: invoked while a request
\* is pending it issues another one; any completion clears the flag, other
\* requests pending or not; and every fulfilment, of the request started
\* last or of an older one, replaces the displayed result by its response.
NoRequestSequencing ==
  [][ /\ (loading /\ invokeSubmitForm) =>
           (Cardinality(pending') = Cardinality(pending) + 1 /\ loading')
      /\ Cardinality(pending') < Cardinality(pending) => ~loading'
      /\ \A req \in pending, data \in Bodies, contentType \in ContentTypes :
           postFulfilled(req, data, contentType) =>
             blobStore'[imageUrl'] = Blob(data, contentType) ]_vars

\* Two requests were in flight; the one started last was fulfilled first, the
\* flag is false while the first is still pending, and its response can
\* still replace the displayed result.
NoRequestSequencingWitness ==
  /\ sent = 2
  /\ ~loading
  /\ imageUrl = 1
  /\ \E req \in pending : req.id = 1 /\ ENABLED postFulfilled(req, "B2", "image/webp")

\* C17: no result is displayed before the first success; a displayed result
\* never becomes absent again, and it changes only by a fulfilled request
\* replacing it with a new reference.
ResultOnlyReplaced ==
  /\ [](Len(blobStore) = 0 => imageUrl = NoUrl)
  /\ [][ /\ imageUrl # NoUrl => imageUrl' # NoUrl
         /\ imageUrl' # imageUrl =>
              /\ imageUrl' \notin DOMAIN blobStore
              /\ imageUrl' \in DOMAIN blobStore'
              /\ Cardinality(pending') < Cardinality(pending) ]_vars

\* After a guard-aborted submit, the first result was replaced by the second.
ResultOnlyReplacedWitness ==
  imageUrl = 2 /\ alerts = 1 /\ pending = {} /\ ~loading

\* ------------------------------------------- the ky version of the component
\* The second version of the component (it posts with ky), as transition
\* functions on a record of its refs, its pending requests and its effects.

\* The <option> values of its format <select>.
KyFormats == {"jpeg", "jxl", "png", "webp"}

kyInit ==
  [selectedFile |-> NoFile, imageUrl |-> NoUrl, outputFormat |-> "png", loading |-> FALSE,
   pending |-> {}, sent |-> 0, blobStore |-> << >>, alerts |-> 0, errorLog |-> 0]

\* computed(() => !selectedFile.value || loading.value)
kyIsSubmitDisabled(k) == k.selectedFile = NoFile \/ k.loading

\* @change on the file input
kyHandleFileUpload(k, files) ==
  IF Len(files) > 0 THEN [k EXCEPT !.selectedFile = files[1]] ELSE k

\* v-model on the format <select>
kySelectOutputFormat(k, format) == [k EXCEPT !.outputFormat = format]

\* The FormData built by submitForm: the parts in append order.
kyFormData(file, format) ==
  << [name |-> "file", value |-> file],
     [name |-> "output_type",
      value |-> [data |-> JSONStringify(format), type |-> "application/json"]] >>

\* submitForm up to its await
kySubmitForm(k) ==
  IF k.selectedFile = NoFile
  THEN [k EXCEPT !.alerts = @ + 1]
  ELSE [k EXCEPT !.loading = TRUE,
                 !.sent = @ + 1,
                 !.pending = @ \cup {[id |-> k.sent + 1,
                                      formData |-> kyFormData(k.selectedFile, k.outputFormat)]}]

\* ky.post(...).blob(): the body as a Blob typed by the content-type header,
\* with the empty type when the header is missing.
kyResponseBlob(data, contentType) ==
  [data |-> data, type |-> IF contentType = NoHeader THEN "" ELSE contentType]

\* submitForm after its await, the request fulfilled: try body, then finally.
kyPostFulfilled(k, req, data, contentType) ==
  LET response == kyResponseBlob(data, contentType)
      blob == [data |-> response.data, type |-> response.type]
  IN  [k EXCEPT !.blobStore = Append(@, blob),
                !.imageUrl = Len(k.blobStore) + 1,
                !.loading = FALSE,
                !.pending = @ \ {req}]

\* submitForm after its await, the request rejected: catch, then finally.
kyPostRejected(k, req) ==
  [k EXCEPT !.errorLog = @ + 1, !.loading = FALSE, !.pending = @ \ {req}]

\* The state of the axios version, as such a record.
View ==
  [selectedFile |-> selectedFile, imageUrl |-> imageUrl, outputFormat |-> outputFormat,
   loading |-> loading, pending |-> pending, sent |-> sent, blobStore |-> blobStore,
   alerts |-> alerts, errorLog |-> errorLog]

\* C18: the two versions implement the same state machine: they start in the
\* same state, their submit buttons are disabled in the same states, and
\* every event (a file selection, a selection of a format both offer, a click
\* on the button, an invocation of submitForm, a fulfilled or rejected
\* request) takes the ky version from the axios version's state to the axios
\* version's next state, requests and their file and format parts included.
VersionsAgree ==
  /\ View = kyInit
  /\ FormatChoices = Formats \cap KyFormats
  /\ [](/\ kyIsSubmitDisabled(View) = isSubmitDisabled
        /\ kyHandleFileUpload(View, << >>) = View
        /\ kySelectOutputFormat(View, outputFormat) = View)
  /\ [][ /\ \A files \in FileLists :
             handleFileUpload(files) => View' = kyHandleFileUpload(View, files)
         /\ \A format \in Formats \cap KyFormats :
             selectOutputFormat(format) => View' = kySelectOutputFormat(View, format)
         /\ clickSubmit => (~kyIsSubmitDisabled(View) /\ View' = kySubmitForm(View))
         /\ invokeSubmitForm => View' = kySubmitForm(View)
         /\ \A req \in pending :
              /\ \A data \in Bodies, contentType \in ContentTypes :
                   postFulfilled(req, data, contentType) =>
                     View' = kyPostFulfilled(View, req, data, contentType)
              /\ postRejected(req) => View' = kyPostRejected(View, req) ]_vars

\* Both versions have shown the alert, handled a failure and a success with
\* another file and format selected, and have their buttons enabled.
VersionsAgreeWitness ==
  /\ alerts = 1
  /\ errorLog = 1
  /\ imageUrl = 1
  /\ outputFormat = "webp"
  /\ ~kyIsSubmitDisabled(View)
  /\ ~isSubmitDisabled

====
